---- MODULE Spec2Model ----
(***************************************************************************)
(* Model of the per-frame simulation core of project_zenith:               *)
(* World.update() (src/world.py) with its collision passes, and the enemy  *)
(* update / death model of BaseEnemy and FollowEnemy (src/enemy.py) with   *)
(* the heading helper get_vectors (src/settings.py).                       *)
(*                                                                         *)
(* Numbers.  pygame positions and velocities are floats, rectangles hold   *)
(* integers.  Positions are kept here in sub-pixel units of 1/Scale pixel, *)
(* velocities in whole pixels per second, and one frame lasts dt/Scale     *)
(* seconds, so that pos += vel * delta_time is pos + vel * dt exactly.     *)
(* Rectangles are kept by their integer centre (in pixels) and their size. *)
(***************************************************************************)
EXTENDS Integers, Sequences, FiniteSets, TLC

\* ---------------------------------------------------------------- bounds
\* Number of World.update() calls explored.
MaxTicks == 3
\* Enemies and friendly projectiles present in the world.
NumEnemies == 2
NumProjectiles == 2
\* Sub-pixel units per pixel (and frames per second when dt = 1).
Scale == 10

\* ------------------------------------------------------ program constants
padding == 10
collision_tollerance == 15
BaseSpeed == 100
BaseHealth == 5
BaseDropChance == 1
DropRollLo == 1
DropRollHi == 1
FollowSize == 20
FollowSpeed == 70
FollowHealth == 5
\* self.walls: [x, y, width, height] of every wall.
walls == << <<0, 0, 1, 20>> >>
\* settings.delta_time, in units of 1/Scale second: 0 as settings.py leaves
\* it, or the frame time the main loop keeps it at.
DeltaTimes == {0, 1}

\* Parts of the repository that are not among the source files: the player,
\* the projectiles, the drops, the walls' class and FlyerEnemy (which
\* world.py constructs but enemy.py does not define).
PlayerSize == 20
FlyerSize == 20
ProjectileSize == 4

\* ---------------------------------------------------------------- helpers
Abs(n) == IF n < 0 THEN -n ELSE n
Sgn(n) == IF n < 0 THEN -1 ELSE IF n > 0 THEN 1 ELSE 0

\* int(float): the float -> int conversion pygame applies when a Vector2 is
\* assigned to a Rect attribute truncates toward zero.  n is in sub-pixels,
\* the result in pixels.
Trunc(n) == IF n >= 0 THEN n \div Scale ELSE -((-n) \div Scale)

\* rect.center = pos
RectCenter(pos) == <<Trunc(pos[1]), Trunc(pos[2])>>

\* A rectangle [left, top, width, height] from its centre and (square) size:
\* Rect.center's setter puts left = centerx - w // 2.
RectOf(c, size) == <<c[1] - size \div 2, c[2] - size \div 2, size, size>>
Left(r) == r[1]
Top(r) == r[2]
Right(r) == r[1] + r[3]
Bottom(r) == r[2] + r[4]
WallRect(w) == <<w[1], w[2], w[3], w[4]>>

\* pygame.Rect.colliderect: strict overlap, empty rectangles never collide.
colliderect(a, b) ==
    /\ a[3] > 0 /\ a[4] > 0 /\ b[3] > 0 /\ b[4] > 0
    /\ Left(a) < Right(b) /\ Left(b) < Right(a)
    /\ Top(a) < Bottom(b) /\ Top(b) < Bottom(a)

\* floor(sqrt(n)) for 0 <= n <= hi * hi: the r of lo..hi with
\* r * r <= n < (r + 1) * (r + 1), found by bisection.
RECURSIVE ISqrtIn(_, _, _)
ISqrtIn(n, lo, hi) ==
    IF lo >= hi THEN lo
    ELSE LET mid == (lo + hi + 1) \div 2
         IN  IF mid * mid <= n THEN ISqrtIn(n, mid, hi)
             ELSE ISqrtIn(n, lo, mid - 1)
ISqrt(n, hi) == ISqrtIn(n, 0, hi)

\* ------------------------------------------------------------------ state
VARIABLES
    pc,                   \* the statement of World.update() that runs next
    tick,                 \* World.update() calls started so far
    error,                \* the exception that ended the process, or "none"
    delta_time,           \* settings.delta_time
    player,               \* World.player: [pos, vel, rectc, size]
    enemy,                \* every enemy ever created, by identity
    enemy_container,      \* World.enemy_container, in iteration order
    projectile,           \* every friendly projectile, by identity
    friendly_projectiles, \* World.friendly_projectiles, in iteration order
    ground_items,         \* World.ground_items, in iteration order
    world_camera,         \* members of World.world_camera (the render group)
    collidables,          \* World.collidables: wall rectangles, in order
    wall_container,       \* World.wall_container
    dieLog,               \* history: the enemies die() was entered for
    hitLog,               \* history: the hits the projectile pass registered
    tested,               \* history: the pairs the last projectile pass tested
    atTickEnd,            \* history: the enemies as the last tick left them
    enemyBefore,          \* history: the enemies as the last step found them
    groupsBefore,         \* history: the groups as the last step found them
    nudgeLog,             \* history: the moves of the last enemy_collision()
    done                  \* history: the steps of this tick that have ended

vars == <<pc, tick, error, delta_time, player, enemy, enemy_container,
          projectile, friendly_projectiles, ground_items, world_camera,
          collidables, wall_container, dieLog, hitLog, tested, atTickEnd,
          enemyBefore, groupsBefore, nudgeLog, done>>

\* The sprite groups of the world.
Groups == [enemy_container |-> enemy_container,
           friendly_projectiles |-> friendly_projectiles,
           ground_items |-> ground_items,
           world_camera |-> world_camera,
           collidables |-> collidables,
           wall_container |-> wall_container]

EnemyIds == 1..NumEnemies
ProjectileIds == 1..NumProjectiles

SeqToSet(s) == {s[k] : k \in 1..Len(s)}
\* pygame.sprite.Group.remove
Without(s, x) == SelectSeq(s, LAMBDA y : y # x)

\* The rectangle of an entity record.
Rect(en) == RectOf(en.rectc, en.size)

\* ------------------------------------------------------------ constructors
\* BaseEnemy.__init__ as FollowEnemy.__init__ completes it.
FollowEnemy(x, y) ==
    [class |-> "FollowEnemy", tag |-> {"follower"},
     pos |-> <<x * Scale, y * Scale>>, vel |-> <<0, 0>>,
     rectc |-> <<x, y>>, size |-> FollowSize,
     speed |-> FollowSpeed, health |-> FollowHealth,
     drop_chance |-> BaseDropChance,
     drop_table |-> <<"HealthDrop", "CoinDrop">>]

\* FlyerEnemy is constructed by World.create_enemies but is not defined in
\* enemy.py: a BaseEnemy with the tag "flyer follower", whose drop table is
\* whatever the variant appends to BaseEnemy's empty list.
FlyerEnemy(x, y, table) ==
    [class |-> "FlyerEnemy", tag |-> {"flyer", "follower"},
     pos |-> <<x * Scale, y * Scale>>, vel |-> <<0, 0>>,
     rectc |-> <<x, y>>, size |-> FlyerSize,
     speed |-> BaseSpeed, health |-> BaseHealth,
     drop_chance |-> BaseDropChance,
     drop_table |-> table]

\* -------------------------------------------------------- BaseEnemy.update
\* The part of the world an enemy's update and death read and write.
WorldOf(en, ec, gi, cam, err, dl) ==
    [enemy |-> en, enemy_container |-> ec, ground_items |-> gi,
     world_camera |-> cam, error |-> err, dieLog |-> dl]

\* kill() that removes the enemy from the render group only.
kill_RenderGroupOnly(W, i) ==
    [W EXCEPT !.world_camera = @ \ {<<"enemy", i>>}]

\* pygame.sprite.Sprite.kill of enemy i: removed from every group.
kill(W, i) ==
    [W EXCEPT !.enemy_container = Without(@, i),
              !.world_camera = @ \ {<<"enemy", i>>}]

\* die() without its last line, self.kill().
die_NoKill(W, i, roll, pick) ==
    LET e == W.enemy[i]
        W1 == [W EXCEPT !.dieLog = Append(@, [e |-> i, tick |-> tick,
                                              roll |-> roll, pos |-> e.pos])]
    IN  IF roll = e.drop_chance /\ Len(e.drop_table) > 0
        THEN [W1 EXCEPT !.ground_items = Append(@,
                 [kind |-> e.drop_table[((pick - 1) % Len(e.drop_table)) + 1],
                  pos |-> e.pos, owner |-> i, tick |-> tick]),
                        !.world_camera = @ \cup {<<"drop", Len(W1.ground_items) + 1>>}]
        ELSE W1

\* die() without line 47, the drop's registration with the render group.
die_NoCameraAdd(W, i, roll, pick) ==
    LET e == W.enemy[i]
        W1 == [W EXCEPT !.dieLog = Append(@, [e |-> i, tick |-> tick,
                                              roll |-> roll, pos |-> e.pos])]
    IN  IF roll = e.drop_chance
        THEN IF Len(e.drop_table) = 0
             THEN [W1 EXCEPT !.error = "IndexError"]
             ELSE kill([W1 EXCEPT !.ground_items = Append(@,
                     [kind |-> e.drop_table[((pick - 1) % Len(e.drop_table)) + 1],
                      pos |-> e.pos, owner |-> i, tick |-> tick])], i)
        ELSE kill(W1, i)

\* BaseEnemy.die of enemy i with drop_draw = roll; pick is the index
\* random.choice draws.  A drop is kept with its position and kind; owner and
\* tick are history: the enemy that dropped it and the tick it did so in.
die(W, i, roll, pick) ==
    LET e == W.enemy[i]
        W1 == [W EXCEPT !.dieLog = Append(@, [e |-> i, tick |-> tick,
                                              roll |-> roll, pos |-> e.pos])]
    IN  IF roll = e.drop_chance
        THEN IF Len(e.drop_table) = 0
             THEN \* random.choice([]) raises IndexError before self.kill()
                  [W1 EXCEPT !.error = "IndexError"]
             ELSE LET drop == e.drop_table[((pick - 1) % Len(e.drop_table)) + 1]
                      instance == [kind |-> drop, pos |-> e.pos,
                                   owner |-> i, tick |-> tick]
                      n == Len(W1.ground_items) + 1
                  IN  kill([W1 EXCEPT !.ground_items = Append(@, instance),
                                      !.world_camera = @ \cup {<<"drop", n>>}],
                           i)
        ELSE kill(W1, i)

\* Lines 31-32: the position advance and the re-centring of the rectangle.
advance(e, dt) ==
    LET p == <<e.pos[1] + e.vel[1] * dt, e.pos[2] + e.vel[2] * dt>>
    IN  [e EXCEPT !.pos = p, !.rectc = RectCenter(p)]

\* update() without lines 37-38, the health test.
update_NoDeath(W, i, dt, roll, pick) == [W EXCEPT !.enemy[i] = advance(@, dt)]

\* update() with the health test moved before the position advance.
update_DieFirst(W, i, dt, roll, pick) ==
    IF W.enemy[i].health <= 0 THEN die(W, i, roll, pick)
    ELSE [W EXCEPT !.enemy[i] = advance(@, dt)]

\* BaseEnemy.update of enemy i.
update(W, i, dt, roll, pick) ==
    LET W1 == [W EXCEPT !.enemy[i] = advance(@, dt)]
    IN  IF W1.enemy[i].health <= 0 THEN die(W1, i, roll, pick) ELSE W1

\* Group.update: update() of every sprite of a snapshot of the group; an
\* exception ends the loop.
RECURSIVE GroupUpdate(_, _, _, _, _)
GroupUpdate(W, snapshot, dt, rolls, picks) ==
    IF snapshot = <<>> \/ W.error # "none" THEN W
    ELSE GroupUpdate(update(W, Head(snapshot), dt, rolls[Head(snapshot)],
                            picks[Head(snapshot)]),
                     Tail(snapshot), dt, rolls, picks)

\* ------------------------------------- World.friendly_projectile_collision
\* The part of the world the pass reads and writes: the enemies (health),
\* the projectile group, and the history of tested pairs and of hits.
PassOf(en, fp, hl, ts) ==
    [enemy |-> en, friendly_projectiles |-> fp, hitLog |-> hl, tested |-> ts]

\* Lines 111-113 without p.kill().
testPair_NoKill(P, e, p) ==
    LET overlap == colliderect(Rect(P.enemy[e]), Rect(projectile[p]))
        P1 == IF overlap
              THEN [P EXCEPT !.enemy[e].health = @ - projectile[p].damage]
              ELSE P
    IN  [P1 EXCEPT !.tested = Append(@,
            [e |-> e, p |-> p,
             before |-> P.enemy[e].health,
             after |-> P1.enemy[e].health,
             inBefore |-> p \in SeqToSet(P.friendly_projectiles),
             inAfter |-> p \in SeqToSet(P1.friendly_projectiles),
             othersBefore |-> Without(P.friendly_projectiles, p),
             othersAfter |-> Without(P1.friendly_projectiles, p)])]

\* Lines 111-113 for enemy e and projectile p.  The entry added to tested
\* records what the test read and what it left: the enemy's health and the
\* projectile's membership of the group, before and after.
testPair(P, e, p) ==
    LET overlap == colliderect(Rect(P.enemy[e]), Rect(projectile[p]))
        P1 == IF overlap
              THEN [P EXCEPT
                      !.enemy[e].health = @ - projectile[p].damage,
                      !.friendly_projectiles = Without(@, p),
                      !.hitLog = Append(@, [e |-> e, p |-> p, tick |-> tick,
                                            before |-> P.enemy[e].health,
                                            after |-> P.enemy[e].health
                                                      - projectile[p].damage,
                                            pos |-> P.enemy[e].pos])]
              ELSE P
    IN  [P1 EXCEPT !.tested = Append(@,
            [e |-> e, p |-> p,
             before |-> P.enemy[e].health,
             after |-> P1.enemy[e].health,
             inBefore |-> p \in SeqToSet(P.friendly_projectiles),
             inAfter |-> p \in SeqToSet(P1.friendly_projectiles),
             othersBefore |-> Without(P.friendly_projectiles, p),
             othersAfter |-> Without(P1.friendly_projectiles, p)])]

\* Line 110: the inner loop over a snapshot of the projectile group.
RECURSIVE projectilesLoop(_, _, _)
projectilesLoop(P, e, snapshot) ==
    IF snapshot = <<>> THEN P
    ELSE projectilesLoop(testPair(P, e, Head(snapshot)), e, Tail(snapshot))

\* Line 109: the outer loop over a snapshot of the enemy group; the inner
\* snapshot is taken anew for every enemy.
RECURSIVE enemiesLoop(_, _)
enemiesLoop(P, snapshot) ==
    IF snapshot = <<>> THEN P
    ELSE enemiesLoop(projectilesLoop(P, Head(snapshot),
                                     P.friendly_projectiles),
                     Tail(snapshot))

\* The two loops with one snapshot of the projectile group, taken when the
\* pass starts, used for every enemy.
RECURSIVE enemiesLoop_OneSnapshot(_, _, _)
enemiesLoop_OneSnapshot(P, snapshot, ps) ==
    IF snapshot = <<>> THEN P
    ELSE enemiesLoop_OneSnapshot(projectilesLoop(P, Head(snapshot), ps),
                                 Tail(snapshot), ps)

friendly_projectile_collision_OneSnapshot(P, ec) ==
    enemiesLoop_OneSnapshot(P, ec, P.friendly_projectiles)

friendly_projectile_collision(P, ec) == enemiesLoop(P, ec)

\* ---------------------------------------------------- World.enemy_collision
\* The ordered pairs (e, e2) of the two nested loops, in iteration order.
RECURSIVE PairsFrom(_, _)
PairsFrom(outer, inner) ==
    IF outer = <<>> THEN <<>>
    ELSE [k \in 1..Len(inner) |-> <<Head(outer), inner[k]>>]
         \o PairsFrom(Tail(outer), inner)

\* Line 127 for a pair; rectangles are not touched by the pass.
Overlapping(en, pr) ==
    pr[1] # pr[2] /\ colliderect(Rect(en[pr[1]]), Rect(en[pr[2]]))

\* Lines 126, 128 and 129 without the test of line 127.
nudge_NoOverlapTest(en, pr, draws) ==
    IF pr[1] # pr[2]
    THEN [en EXCEPT ![pr[1]].pos = <<@[1] + draws[pr[1]][1] * Scale,
                                     @[2] + draws[pr[1]][2] * Scale>>]
    ELSE en

\* Lines 126-129 with both enemies of the pair nudged at each visit.
nudge_Both(en, pr, draws) ==
    IF Overlapping(en, pr)
    THEN [en EXCEPT ![pr[1]].pos = <<@[1] + draws[pr[1]][1] * Scale,
                                     @[2] + draws[pr[1]][2] * Scale>>,
                    ![pr[2]].pos = <<@[1] + draws[pr[1]][1] * Scale,
                                     @[2] + draws[pr[1]][2] * Scale>>]
    ELSE en

\* Lines 126-129 for the pair pr; draws[e] holds the two randint values
\* drawn for a nudge of enemy e.
nudge(en, pr, draws) ==
    IF Overlapping(en, pr)
    THEN [en EXCEPT ![pr[1]].pos = <<@[1] + draws[pr[1]][1] * Scale,
                                     @[2] + draws[pr[1]][2] * Scale>>]
    ELSE en

RECURSIVE enemy_collision(_, _, _)
enemy_collision(en, pairs, draws) ==
    IF pairs = <<>> THEN en
    ELSE enemy_collision(nudge(en, Head(pairs), draws), Tail(pairs), draws)

\* History of one visit of a pair: the enemies it moved, and by how much.
Moves(en, en1) ==
    LET moved == {i \in DOMAIN en : en1[i].pos # en[i].pos}
        RECURSIVE AsSeq(_)
        AsSeq(S) == IF S = {} THEN <<>>
                    ELSE LET i == CHOOSE x \in S : \A y \in S : x <= y
                         IN  <<[e |-> i, by |-> <<en1[i].pos[1] - en[i].pos[1],
                                                  en1[i].pos[2] - en[i].pos[2]>>]>>
                             \o AsSeq(S \ {i})
    IN  AsSeq(moved)

\* History of the pass: the moves of its visits, in order.
RECURSIVE nudgeTrace(_, _, _)
nudgeTrace(en, pairs, draws) ==
    IF pairs = <<>> THEN <<>>
    ELSE LET en1 == nudge(en, Head(pairs), draws)
         IN  Moves(en, en1) \o nudgeTrace(en1, Tail(pairs), draws)

\* ------------------------------------------------------- wall collisions
\* c.rect.right + e.rect.width / 2 and its three siblings, in sub-pixels.
SnapAfter(edge, size) == ((2 * edge + size) * Scale) \div 2
SnapBefore(edge, size) == ((2 * edge - size) * Scale) \div 2

\* The four tests as one if / elif chain: only the first that holds acts.
wallCollide_Elif(b, c) ==
    LET r == Rect(b)
    IN  IF ~colliderect(r, c) THEN b
        ELSE IF Abs(Left(r) - Right(c)) < collision_tollerance
        THEN [b EXCEPT !.vel[1] = 0, !.pos[1] = SnapAfter(Right(c), r[3])]
        ELSE IF Abs(Right(r) - Left(c)) < collision_tollerance
        THEN [b EXCEPT !.vel[1] = 0, !.pos[1] = SnapBefore(Left(c), r[3])]
        ELSE IF Abs(Top(r) - Bottom(c)) < collision_tollerance
        THEN [b EXCEPT !.vel[2] = 0, !.pos[2] = SnapAfter(Bottom(c), r[4])]
        ELSE IF Abs(Bottom(r) - Top(c)) < collision_tollerance
        THEN [b EXCEPT !.vel[2] = 0, !.pos[2] = SnapBefore(Top(c), r[4])]
        ELSE b

\* The four tests with the velocity reversed rather than zeroed.
wallCollide_Bounce(b, c) ==
    LET r == Rect(b)
        b1 == IF Abs(Left(r) - Right(c)) < collision_tollerance
              THEN [b EXCEPT !.vel[1] = -@, !.pos[1] = SnapAfter(Right(c), r[3])]
              ELSE b
        b2 == IF Abs(Right(r) - Left(c)) < collision_tollerance
              THEN [b1 EXCEPT !.vel[1] = -@, !.pos[1] = SnapBefore(Left(c), r[3])]
              ELSE b1
        b3 == IF Abs(Top(r) - Bottom(c)) < collision_tollerance
              THEN [b2 EXCEPT !.vel[2] = -@, !.pos[2] = SnapAfter(Bottom(c), r[4])]
              ELSE b2
        b4 == IF Abs(Bottom(r) - Top(c)) < collision_tollerance
              THEN [b3 EXCEPT !.vel[2] = -@, !.pos[2] = SnapBefore(Top(c), r[4])]
              ELSE b3
    IN  IF colliderect(r, c) THEN b4 ELSE b

\* Lines 141-153 (and 167-179) for entity b against wall rectangle c: the
\* four tests read the entity's rectangle, which the snaps do not move.
wallCollide(b, c) ==
    LET r == Rect(b)
        b1 == IF Abs(Left(r) - Right(c)) < collision_tollerance
              THEN [b EXCEPT !.vel[1] = 0, !.pos[1] = SnapAfter(Right(c), r[3])]
              ELSE b
        b2 == IF Abs(Right(r) - Left(c)) < collision_tollerance
              THEN [b1 EXCEPT !.vel[1] = 0, !.pos[1] = SnapBefore(Left(c), r[3])]
              ELSE b1
        b3 == IF Abs(Top(r) - Bottom(c)) < collision_tollerance
              THEN [b2 EXCEPT !.vel[2] = 0, !.pos[2] = SnapAfter(Bottom(c), r[4])]
              ELSE b2
        b4 == IF Abs(Bottom(r) - Top(c)) < collision_tollerance
              THEN [b3 EXCEPT !.vel[2] = 0, !.pos[2] = SnapBefore(Top(c), r[4])]
              ELSE b3
    IN  IF colliderect(r, c) THEN b4 ELSE b

\* The loop over the collidables for one entity.
RECURSIVE wallsLoop(_, _)
wallsLoop(b, cs) ==
    IF cs = <<>> THEN b ELSE wallsLoop(wallCollide(b, Head(cs)), Tail(cs))

\* World.player_wall_collisions
player_wall_collisions(pl, cs) == wallsLoop(pl, cs)

\* Lines 166-179 without the test of line 165.
enemyWall_NoFlyerTest(e, cs) == wallsLoop(e, cs)

\* World.enemy_wall_collisions: line 165 exempts the flyers.
enemyWall(e, cs) == IF "flyer" \notin e.tag THEN wallsLoop(e, cs) ELSE e

enemy_wall_collisions(en, ec, cs) ==
    [i \in DOMAIN en |->
        IF i \in SeqToSet(ec) THEN enemyWall(en[i], cs) ELSE en[i]]

\* ------------------------------------------------------------ get_vectors
\* floor(speed^2 * x / d) for 0 <= x <= d, without leaving 32 bits.
ScaledSquare(speed, x, d) ==
    speed * ((speed * x) \div d) + (speed * ((speed * x) % d)) \div d

\* get_vectors without line 46: the direction, not scaled by origin.speed.
get_vectors_Unscaled(opos, speed, tpos) ==
    LET dx == tpos[1] - opos[1]
        dy == tpos[2] - opos[2]
        d2 == dx * dx + dy * dy
    IN  IF d2 = 0
        THEN [raised |-> TRUE, vectors |-> <<>>]
        ELSE [raised |-> FALSE,
              vectors |-> <<Sgn(dx) * ISqrt(ScaledSquare(1, dx * dx, d2), 1),
                            Sgn(dy) * ISqrt(ScaledSquare(1, dy * dy, d2), 1)>>]

\* settings.get_vectors(origin, target): the heading, each component
\* truncated to whole pixels per second; "ZeroDivisionError" when the two
\* positions are equal (normal = 0.0).
get_vectors(opos, speed, tpos) ==
    LET dx == tpos[1] - opos[1]
        dy == tpos[2] - opos[2]
        d2 == dx * dx + dy * dy
    IN  IF d2 = 0
        THEN [raised |-> TRUE, vectors |-> <<>>]
        ELSE [raised |-> FALSE,
              vectors |-> <<Sgn(dx) * ISqrt(ScaledSquare(speed, dx * dx, d2), speed),
                            Sgn(dy) * ISqrt(ScaledSquare(speed, dy * dy, d2), speed)>>]

\* follow_player that leaves a zero velocity axis at zero.
follow_player_KeepsStopped(e, pl) ==
    LET heading == get_vectors(e.pos, e.speed, pl.pos).vectors
    IN  [e EXCEPT !.vel = <<IF e.vel[1] = 0 THEN 0 ELSE heading[1],
                            IF e.vel[2] = 0 THEN 0 ELSE heading[2]>>]

\* FollowEnemy.follow_player, when get_vectors returns.
follow_player(e, pl) ==
    [e EXCEPT !.vel = get_vectors(e.pos, e.speed, pl.pos).vectors]

\* Lines 224-226: the pursuit loop over a snapshot of the enemy group; F is
\* [enemy, error].  An exception of get_vectors ends the loop.
RECURSIVE pursuit(_, _, _)
pursuit(F, snapshot, pl) ==
    IF snapshot = <<>> \/ F.error # "none" THEN F
    ELSE LET i == Head(snapshot)
         IN  IF "follower" \notin F.enemy[i].tag
             THEN pursuit(F, Tail(snapshot), pl)
             ELSE IF get_vectors(F.enemy[i].pos, F.enemy[i].speed, pl.pos).raised
             THEN [F EXCEPT !.error = "ZeroDivisionError"]
             ELSE pursuit([F EXCEPT !.enemy[i] = follow_player(@, pl)],
                          Tail(snapshot), pl)

\* ------------------------------------------------------------------- Init
\* The enemies in play (pixels).  create_enemies draws x in 0..SCREEN_WIDTH
\* and y in 0..SCREEN_HEIGHT: one spawn point lies on the wall at the origin,
\* the other away from it.  A FlyerEnemy's drop table is either BaseEnemy's
\* empty list or the two drops FollowEnemy appends.
EnemyChoices ==
    {FollowEnemy(2, 10), FollowEnemy(30, 10),
     FlyerEnemy(2, 10, <<>>), FlyerEnemy(2, 10, <<"HealthDrop", "CoinDrop">>)}

\* The player (player.py is not among the source files): an entity with a
\* position, a velocity and a rectangle centred on the position.
PlayerStarts == {<<2, 10>>, <<8, 10>>}
PlayerVels == {<<-20, 0>>}
Player(s, v) ==
    [pos |-> <<s[1] * Scale, s[2] * Scale>>, vel |-> v,
     rectc |-> s, size |-> PlayerSize]

\* The friendly projectiles (weapon.py is not among the source files): an
\* entity with a rectangle and a damage.
ProjectileSpots == {<<2, 10>>}
ProjectileDamages == {2, 5}
Projectile(s, d) ==
    [pos |-> <<s[1] * Scale, s[2] * Scale>>, vel |-> <<0, 0>>,
     rectc |-> s, size |-> ProjectileSize, damage |-> d]
ProjectileChoices ==
    {Projectile(s, d) : s \in ProjectileSpots, d \in ProjectileDamages}

\* World.create_walls: one Wall per entry of self.walls, in both groups.
create_walls(wall_array) == [k \in 1..Len(wall_array) |-> WallRect(wall_array[k])]

\* World.__init__, followed by the enemies and projectiles in play.
Init ==
    /\ pc = "camera"
    /\ tick = 0
    /\ error = "none"
    /\ delta_time \in DeltaTimes
    /\ player \in {Player(s, v) : s \in PlayerStarts, v \in PlayerVels}
    /\ enemy \in [EnemyIds -> EnemyChoices]
    /\ enemy_container = [k \in EnemyIds |-> k]
    /\ projectile \in [ProjectileIds -> ProjectileChoices]
    /\ friendly_projectiles = [k \in ProjectileIds |-> k]
    /\ ground_items = <<>>
    /\ collidables = create_walls(walls)
    /\ wall_container = create_walls(walls)
    /\ world_camera = {<<"player", 0>>}
                      \cup {<<"enemy", i>> : i \in EnemyIds}
                      \cup {<<"wall", k>> : k \in 1..Len(walls)}
    /\ dieLog = <<>>
    /\ hitLog = <<>>
    /\ tested = <<>>
    /\ atTickEnd = enemy
    /\ enemyBefore = enemy
    /\ groupsBefore = Groups
    /\ nudgeLog = <<>>
    /\ done = <<>>

\* ---------------------------------------------------------- World.update
\* Lines 213-214 and what the frame did before them: the player has moved.
CameraUpdate ==
    /\ pc = "camera" /\ error = "none" /\ tick < MaxTicks
    /\ player' = advance(player, delta_time)
    /\ tick' = tick + 1
    /\ pc' = "enemy_container.update"
    /\ enemyBefore' = enemy
    /\ groupsBefore' = Groups
    /\ done' = <<pc>>
    /\ UNCHANGED nudgeLog
    /\ UNCHANGED <<error, delta_time, enemy, enemy_container, projectile,
                   friendly_projectiles, ground_items, world_camera,
                   collidables, wall_container, dieLog, hitLog, tested,
                   atTickEnd>>

\* The enemies whose update() will call die(): update() does not change
\* the health it tests.
Dying == {i \in SeqToSet(enemy_container) : enemy[i].health <= 0}

\* Line 215: self.enemy_container.update()
EnemiesUpdate ==
    /\ pc = "enemy_container.update" /\ error = "none"
    /\ \E rolls \in [Dying -> DropRollLo..DropRollHi],
          picks \in [Dying -> 1..2] :
          LET W == GroupUpdate(WorldOf(enemy, enemy_container, ground_items,
                                       world_camera, error, dieLog),
                               enemy_container, delta_time, rolls, picks)
          IN  /\ enemy' = W.enemy
              /\ enemy_container' = W.enemy_container
              /\ ground_items' = W.ground_items
              /\ world_camera' = W.world_camera
              /\ error' = W.error
              /\ dieLog' = W.dieLog
    /\ pc' = "friendly_projectiles.update"
    /\ enemyBefore' = enemy
    /\ groupsBefore' = Groups
    /\ done' = Append(done, pc)
    /\ UNCHANGED nudgeLog
    /\ UNCHANGED <<tick, delta_time, player, projectile, friendly_projectiles,
                   collidables, wall_container, hitLog, tested, atTickEnd>>

\* Line 216: self.friendly_projectiles.update()
ProjectilesUpdate ==
    /\ pc = "friendly_projectiles.update" /\ error = "none"
    /\ projectile' = [p \in DOMAIN projectile |->
                        IF p \in SeqToSet(friendly_projectiles)
                        THEN advance(projectile[p], delta_time)
                        ELSE projectile[p]]
    /\ pc' = "ground_items.update"
    /\ enemyBefore' = enemy
    /\ groupsBefore' = Groups
    /\ done' = Append(done, pc)
    /\ UNCHANGED nudgeLog
    /\ UNCHANGED <<tick, error, delta_time, player, enemy, enemy_container,
                   friendly_projectiles, ground_items, world_camera,
                   collidables, wall_container, dieLog, hitLog, tested,
                   atTickEnd>>

\* Line 217 with line 219 left out: the enemy-vs-enemy pass comes next.
GroundItemsUpdate_NoProjectilePass ==
    /\ pc = "ground_items.update" /\ error = "none"
    /\ pc' = "enemy_collision"
    /\ enemyBefore' = enemy
    /\ groupsBefore' = Groups
    /\ done' = Append(done, pc)
    /\ UNCHANGED <<tick, error, delta_time, player, enemy, enemy_container,
                   projectile, friendly_projectiles, ground_items,
                   world_camera, collidables, wall_container, dieLog, hitLog,
                   tested, atTickEnd, nudgeLog>>

\* Line 217: self.ground_items.update(); a drop on the ground does not move.
GroundItemsUpdate ==
    /\ pc = "ground_items.update" /\ error = "none"
    /\ pc' = "friendly_projectile_collision"
    /\ enemyBefore' = enemy
    /\ groupsBefore' = Groups
    /\ done' = Append(done, pc)
    /\ UNCHANGED nudgeLog
    /\ UNCHANGED <<tick, error, delta_time, player, enemy, enemy_container,
                   projectile, friendly_projectiles, ground_items,
                   world_camera, collidables, wall_container, dieLog, hitLog,
                   tested, atTickEnd>>

\* Line 219
FriendlyProjectileCollision ==
    /\ pc = "friendly_projectile_collision" /\ error = "none"
    /\ LET P == friendly_projectile_collision(
                    PassOf(enemy, friendly_projectiles, hitLog, <<>>),
                    enemy_container)
       IN  /\ enemy' = P.enemy
           /\ friendly_projectiles' = P.friendly_projectiles
           /\ hitLog' = P.hitLog
           /\ tested' = P.tested
    /\ pc' = "enemy_collision"
    /\ enemyBefore' = enemy
    /\ groupsBefore' = Groups
    /\ done' = Append(done, pc)
    /\ UNCHANGED nudgeLog
    /\ UNCHANGED <<tick, error, delta_time, player, enemy_container,
                   projectile, ground_items, world_camera, collidables,
                   wall_container, dieLog, atTickEnd>>

\* The pairs of values the two random.randint(-padding, padding) calls of
\* one nudge are let to draw.  The nudges of one enemy in one pass draw the
\* same pair, and in one pass at most one enemy draws another pair than the
\* first; hit are the enemies the pass nudges.
NudgeDraws == {<<padding, 0>>, <<-padding, padding>>}
NudgeChoices(hit) ==
    {d \in [EnemyIds -> NudgeDraws] :
        /\ \A e \in EnemyIds \ hit : d[e] = <<padding, 0>>
        /\ Cardinality({e \in hit : d[e] # <<padding, 0>>}) <= 1}

\* Line 220
EnemyCollision ==
    /\ pc = "enemy_collision" /\ error = "none"
    /\ LET pairs == PairsFrom(enemy_container, enemy_container)
           hit == {pr[1] : pr \in {q \in SeqToSet(pairs) : Overlapping(enemy, q)}}
       IN  \E draws \in NudgeChoices(hit) :
              /\ enemy' = enemy_collision(enemy, pairs, draws)
              /\ nudgeLog' = nudgeTrace(enemy, pairs, draws)
    /\ pc' = "player_wall_collisions"
    /\ enemyBefore' = enemy
    /\ groupsBefore' = Groups
    /\ done' = Append(done, pc)
    /\ UNCHANGED <<tick, error, delta_time, player, enemy_container,
                   projectile, friendly_projectiles, ground_items,
                   world_camera, collidables, wall_container, dieLog, hitLog,
                   tested, atTickEnd>>

\* Line 221 with every wall the player's rectangle overlaps killed.
PlayerWallCollisions_KillsWall ==
    /\ pc = "player_wall_collisions" /\ error = "none"
    /\ player' = player_wall_collisions(player, collidables)
    /\ collidables' = SelectSeq(collidables,
                                LAMBDA c : ~colliderect(Rect(player), c))
    /\ wall_container' = SelectSeq(wall_container,
                                   LAMBDA c : ~colliderect(Rect(player), c))
    /\ pc' = "enemy_wall_collisions"
    /\ enemyBefore' = enemy
    /\ groupsBefore' = Groups
    /\ done' = Append(done, pc)
    /\ UNCHANGED <<tick, error, delta_time, enemy, enemy_container,
                   projectile, friendly_projectiles, ground_items,
                   world_camera, dieLog, hitLog, tested, atTickEnd, nudgeLog>>

\* Line 221
PlayerWallCollisions ==
    /\ pc = "player_wall_collisions" /\ error = "none"
    /\ player' = player_wall_collisions(player, collidables)
    /\ pc' = "enemy_wall_collisions"
    /\ enemyBefore' = enemy
    /\ groupsBefore' = Groups
    /\ done' = Append(done, pc)
    /\ UNCHANGED nudgeLog
    /\ UNCHANGED <<tick, error, delta_time, enemy, enemy_container,
                   projectile, friendly_projectiles, ground_items,
                   world_camera, collidables, wall_container, dieLog, hitLog,
                   tested, atTickEnd>>

\* Line 222
EnemyWallCollisions ==
    /\ pc = "enemy_wall_collisions" /\ error = "none"
    /\ enemy' = enemy_wall_collisions(enemy, enemy_container, collidables)
    /\ pc' = "follow_player"
    /\ enemyBefore' = enemy
    /\ groupsBefore' = Groups
    /\ done' = Append(done, pc)
    /\ UNCHANGED nudgeLog
    /\ UNCHANGED <<tick, error, delta_time, player, enemy_container,
                   projectile, friendly_projectiles, ground_items,
                   world_camera, collidables, wall_container, dieLog, hitLog,
                   tested, atTickEnd>>

\* Lines 224-226
Pursuit ==
    /\ pc = "follow_player" /\ error = "none"
    /\ LET F == pursuit([enemy |-> enemy, error |-> error],
                        enemy_container, player)
       IN  /\ enemy' = F.enemy
           /\ error' = F.error
           /\ atTickEnd' = F.enemy
    /\ pc' = "camera"
    /\ enemyBefore' = enemy
    /\ groupsBefore' = Groups
    /\ done' = Append(done, pc)
    /\ UNCHANGED nudgeLog
    /\ UNCHANGED <<tick, delta_time, player, enemy_container, projectile,
                   friendly_projectiles, ground_items, world_camera,
                   collidables, wall_container, dieLog, hitLog, tested>>

Next ==
    \/ CameraUpdate
    \/ EnemiesUpdate
    \/ ProjectilesUpdate
    \/ GroundItemsUpdate
    \/ FriendlyProjectileCollision
    \/ EnemyCollision
    \/ PlayerWallCollisions
    \/ EnemyWallCollisions
    \/ Pursuit

Spec == Init /\ [][Next]_vars

\* ----------------------------------------------------------------- claims
InContainer(i) == i \in SeqToSet(enemy_container)
Count(log, i) == Cardinality({k \in 1..Len(log) : log[k].e = i})
\* A hit that took an enemy's health from above 0 to 0 or below.
Fatal(h) == h.before > 0 /\ h.after <= 0
FatalHits == {k \in 1..Len(hitLog) : Fatal(hitLog[k])}
\* The enemy-update step of the running tick has returned.
UpdateReturned == error = "none" /\ pc # "enemy_container.update"

\* C1: in every reachable state, the rectangle of every enemy of the enemy
\* collection is centred on the enemy's position (the position's whole
\* pixels, which is all a rectangle can hold).
C1_RectCentredOnPos ==
    \A i \in EnemyIds :
        InContainer(i) => enemy[i].rectc = RectCenter(enemy[i].pos)

\* C2, as claimed: when a World.update() has returned, no enemy of the enemy
\* collection has health <= 0.
C2_NoDeadEnemyAtTickEnd ==
    (pc = "camera" /\ error = "none") =>
        \A i \in EnemyIds : InContainer(i) => enemy[i].health > 0

\* C2, amended: an enemy a projectile hit brings to health <= 0 stays in the
\* enemy collection for the rest of that tick, and is out of it once the
\* enemy-update step of the next tick has returned; so no enemy of the
\* collection has health <= 0 between that step and the projectile pass.
C2_DeathInNextUpdate ==
    /\ \A k \in FatalHits :
          /\ hitLog[k].tick = tick => InContainer(hitLog[k].e)
          /\ (hitLog[k].tick < tick /\ UpdateReturned)
                => ~InContainer(hitLog[k].e)
    /\ (error = "none" /\ pc \in {"friendly_projectiles.update",
                                  "ground_items.update",
                                  "friendly_projectile_collision"})
          => \A i \in EnemyIds : InContainer(i) => enemy[i].health > 0

\* C2's case: a fatal hit of the previous tick, and the enemy gone after the
\* enemy-update step of this one.
C2_Witness ==
    \E k \in FatalHits :
        /\ hitLog[k].tick < tick /\ UpdateReturned
        /\ ~InContainer(hitLog[k].e)

DropsOf(i) == {k \in 1..Len(ground_items) : ground_items[k].owner = i}
HitsOf(i, t) == {k \in 1..Len(hitLog) : hitLog[k].e = i /\ hitLog[k].tick = t}

\* C3: die() runs at most once for an enemy and leaves at most one drop of
\* it, however many projectiles hit the enemy; it has run exactly once for
\* every enemy that left the collection, and only for enemies whose health
\* was <= 0.
C3_DieOnce ==
    \A i \in EnemyIds :
        /\ Count(dieLog, i) <= 1
        /\ Cardinality(DropsOf(i)) <= Count(dieLog, i)
        /\ ~InContainer(i) => Count(dieLog, i) = 1
        /\ Count(dieLog, i) = 1 => enemy[i].health <= 0

\* C3's case: an enemy hit by two projectiles in one pass, the second when
\* its health was already <= 0, that has died and left its one drop, a tick
\* after its death.
C3_Witness ==
    \E i \in EnemyIds :
        /\ \E k \in HitsOf(i, 1) : hitLog[k].before <= 0
        /\ Count(dieLog, i) = 1
        /\ Cardinality(DropsOf(i)) = 1
        /\ ~InContainer(i)
        /\ \E k \in 1..Len(dieLog) : dieLog[k].e = i /\ dieLog[k].tick < tick

\* C4, as claimed: every execution of die() ends with the enemy out of the
\* enemy collection and of the render collection, and does not end the tick.
C4_DieAlwaysRemoves ==
    \A k \in 1..Len(dieLog) :
        /\ ~InContainer(dieLog[k].e)
        /\ <<"enemy", dieLog[k].e>> \notin world_camera
        /\ error # "IndexError"

\* C5, as claimed: a pursuing enemy at the player's position does not end
\* World.update(): the pursuit step returns.
C5_ZeroHeadingRecovered == error # "ZeroDivisionError"

\* C6: when the projectile pass has just ended, every pair it tested has: the
\* projectile in the group before the test; if the two rectangles overlap,
\* the enemy's health lower by the projectile's damage and the projectile out
\* of the group; if they do not, health and group as before; and no other
\* projectile added or removed.
C6_PairEffect ==
    pc = "enemy_collision" =>
        \A k \in 1..Len(tested) :
            LET t == tested[k]
                overlap == colliderect(Rect(enemy[t.e]), Rect(projectile[t.p]))
            IN  /\ t.inBefore
                /\ t.othersAfter = t.othersBefore
                /\ overlap => /\ t.after = t.before - projectile[t.p].damage
                              /\ ~t.inAfter
                /\ ~overlap => /\ t.after = t.before
                               /\ t.inAfter

\* C6's case: a pass that tested an overlapping and a non-overlapping pair.
C6_Witness ==
    /\ pc = "enemy_collision"
    /\ \E k \in 1..Len(tested) :
          colliderect(Rect(enemy[tested[k].e]), Rect(projectile[tested[k].p]))
    /\ \E k \in 1..Len(tested) :
          ~colliderect(Rect(enemy[tested[k].e]), Rect(projectile[tested[k].p]))

\* The executions of die() whose roll succeeded on a non-empty drop table.
DroppingDeaths ==
    SelectSeq(dieLog, LAMBDA d : /\ d.roll = enemy[d.e].drop_chance
                                 /\ Len(enemy[d.e].drop_table) > 0)

\* C7: the ground items are, in order, the drops of the executions of die()
\* whose roll succeeded on a non-empty table: one each, of a kind of the
\* enemy's table, at the position the enemy had when die() ran (which a dead
\* enemy keeps), and each is in the render collection, which holds no other
\* drop.
C7_OneDropPerDeath ==
    /\ Len(ground_items) = Len(DroppingDeaths)
    /\ \A k \in 1..Len(ground_items) :
          /\ ground_items[k].owner = DroppingDeaths[k].e
          /\ ground_items[k].pos = DroppingDeaths[k].pos
          /\ ground_items[k].pos = enemy[ground_items[k].owner].pos
          /\ ground_items[k].kind
                \in SeqToSet(enemy[ground_items[k].owner].drop_table)
    /\ {c \in world_camera : c[1] = "drop"}
          = {<<"drop", k>> : k \in 1..Len(ground_items)}

\* C7's case: die() has run for an enemy with a drop table, which left the
\* enemy collection and whose one drop is on the ground and rendered.
C7_Witness ==
    \E k \in 1..Len(dieLog) :
        /\ Len(enemy[dieLog[k].e].drop_table) > 0
        /\ ~InContainer(dieLog[k].e)
        /\ Cardinality(DropsOf(dieLog[k].e)) = 1
        /\ \A n \in DropsOf(dieLog[k].e) : <<"drop", n>> \in world_camera

\* C8, as claimed: a drop lies where its enemy was when the fatal hit
\* registered.
C8_DropAtFatalHitPosition ==
    \A k \in 1..Len(ground_items) :
        \A h \in FatalHits :
            hitLog[h].e = ground_items[k].owner
                => ground_items[k].pos = hitLog[h].pos

\* C8, amended: the fatal hit is of the tick before the drop's, and the drop
\* lies where the tick of the hit left the enemy (after its nudges and wall
\* snaps), advanced by velocity * delta_time.
C8_DropAtDeathPosition ==
    \A k \in 1..Len(ground_items) :
        LET d == ground_items[k]
            was == atTickEnd[d.owner]
        IN  /\ \E h \in FatalHits : hitLog[h].e = d.owner
            /\ \A h \in FatalHits :
                  hitLog[h].e = d.owner => hitLog[h].tick = d.tick - 1
            /\ (d.tick = tick /\ pc # "camera")
                  => d.pos = <<was.pos[1] + was.vel[1] * delta_time,
                               was.pos[2] + was.vel[2] * delta_time>>

\* C8's case: a drop of this tick that lies elsewhere than its enemy was at
\* the fatal hit.
C8_Witness ==
    \E k \in 1..Len(ground_items) :
        /\ ground_items[k].tick = tick /\ pc # "camera"
        /\ \E h \in FatalHits :
              /\ hitLog[h].e = ground_items[k].owner
              /\ hitLog[h].pos # ground_items[k].pos

\* The tests of the player-vs-wall pass against collidable k; the pass does
\* not move the player's rectangle, so they read the same after the pass.
LeftVsRight(k) ==
    /\ colliderect(Rect(player), collidables[k])
    /\ Abs(Left(Rect(player)) - Right(collidables[k])) < collision_tollerance
RightVsLeft(k) ==
    /\ colliderect(Rect(player), collidables[k])
    /\ Abs(Right(Rect(player)) - Left(collidables[k])) < collision_tollerance

\* C9, as claimed: after the player-vs-wall pass, a player whose rectangle
\* overlaps a wall with |player.rect.left - wall.rect.right| < 15 has
\* vel.x = 0 and pos.x = wall.right + player.width / 2.
C9_SnapsToWallRight ==
    pc = "enemy_wall_collisions" =>
        \A k \in 1..Len(collidables) :
            LeftVsRight(k) =>
                /\ player.vel[1] = 0
                /\ player.pos[1] = SnapAfter(Right(collidables[k]), player.size)

\* C9, amended: such a player has vel.x = 0, and pos.x = wall.right +
\* player.width / 2 unless |player.rect.right - wall.rect.left| < 15 too, when
\* pos.x = wall.left - player.width / 2 (no later wall snapping the x axis).
C9_SnapsToWallRightUnlessLeft ==
    pc = "enemy_wall_collisions" =>
        \A k \in 1..Len(collidables) :
            (/\ LeftVsRight(k)
             /\ \A j \in (k + 1)..Len(collidables) :
                   ~LeftVsRight(j) /\ ~RightVsLeft(j))
            => /\ player.vel[1] = 0
               /\ player.pos[1] =
                     IF RightVsLeft(k)
                     THEN SnapBefore(Left(collidables[k]), player.size)
                     ELSE SnapAfter(Right(collidables[k]), player.size)

\* C9's case: the pass has snapped a player within tolerance of the wall's
\* right edge only.
C9_Witness ==
    /\ pc = "enemy_wall_collisions"
    /\ \E k \in 1..Len(collidables) :
          /\ LeftVsRight(k) /\ ~RightVsLeft(k)
          /\ player.pos[1] = SnapAfter(Right(collidables[k]), player.size)
          /\ player.vel[1] = 0

\* C10: when the enemy-vs-wall pass has just ended, it has changed nothing
\* of an enemy whose tag holds "flyer": every enemy it changed is a non-flyer
\* of the enemy collection, and only in position and velocity.
C10_FlyersExempt ==
    pc = "follow_player" =>
        \A i \in EnemyIds :
            enemy[i] # enemyBefore[i] =>
                /\ "flyer" \notin enemy[i].tag
                /\ InContainer(i)
                /\ enemy[i] = [enemyBefore[i] EXCEPT !.pos = enemy[i].pos,
                                                     !.vel = enemy[i].vel]

\* C10's case: after the pass, a flyer whose rectangle overlaps a wall within
\* tolerance of its right edge and that was not snapped, beside a non-flyer
\* that was.
C10_Witness ==
    /\ pc = "follow_player"
    /\ \E i \in EnemyIds, k \in 1..Len(collidables) :
          /\ InContainer(i) /\ "flyer" \in enemy[i].tag
          /\ colliderect(Rect(enemy[i]), collidables[k])
          /\ Abs(Left(Rect(enemy[i])) - Right(collidables[k])) < collision_tollerance
          /\ enemy[i].pos[1] \notin {SnapAfter(Right(collidables[k]), enemy[i].size),
                                     SnapBefore(Left(collidables[k]), enemy[i].size)}
    /\ \E i \in EnemyIds, k \in 1..Len(collidables) :
          /\ InContainer(i) /\ "flyer" \notin enemy[i].tag
          /\ colliderect(Rect(enemy[i]), collidables[k])
          /\ enemy[i].pos[1] = SnapBefore(Left(collidables[k]), enemy[i].size)

\* The enemies of the collection other than i whose rectangle overlapped
\* that of i when the last step began.
OverlappedBy(i) ==
    {j \in SeqToSet(groupsBefore.enemy_container) \ {i} :
        /\ i \in SeqToSet(groupsBefore.enemy_container)
        /\ colliderect(Rect(enemyBefore[i]), Rect(enemyBefore[j]))}

\* C11: when the enemy-vs-enemy pass has just ended, every enemy whose
\* rectangle overlapped no other enemy's is where it was, every enemy has
\* the velocity, health and every other attribute it had, and every group
\* has the members it had.
C11_SeparationFrame ==
    pc = "player_wall_collisions" =>
        /\ Groups = groupsBefore
        /\ \A i \in EnemyIds :
              /\ enemy[i] = [enemyBefore[i] EXCEPT !.pos = enemy[i].pos]
              /\ OverlappedBy(i) = {} => enemy[i].pos = enemyBefore[i].pos

\* C11's case: the pass has ended for two enemies of the collection whose
\* rectangles do not overlap, one of them moving, and neither was nudged.
C11_Witness ==
    /\ pc = "player_wall_collisions"
    /\ \E i, j \in EnemyIds :
          /\ i # j /\ InContainer(i) /\ InContainer(j)
          /\ OverlappedBy(i) = {} /\ OverlappedBy(j) = {}
          /\ enemy[i].vel # <<0, 0>>
          /\ enemy[i].pos = enemyBefore[i].pos
          /\ enemy[j].pos = enemyBefore[j].pos

\* C12: from every reachable state, the player-vs-wall pass run twice leaves
\* the player as the pass run once does, and the enemy-vs-wall pass run twice
\* leaves every enemy as the pass run once does.
C12_WallPassIdempotent ==
    LET player1 == player_wall_collisions(player, collidables)
        enemy1 == enemy_wall_collisions(enemy, enemy_container, collidables)
    IN  /\ player_wall_collisions(player1, collidables) = player1
        /\ enemy_wall_collisions(enemy1, enemy_container, collidables) = enemy1

\* C12's case: the two wall passes are about to run, and the player-vs-wall
\* pass stops and snaps a moving player, the enemy-vs-wall pass an enemy.
C12_Witness ==
    LET player1 == player_wall_collisions(player, collidables)
        enemy1 == enemy_wall_collisions(enemy, enemy_container, collidables)
    IN  /\ pc = "player_wall_collisions"
        /\ player.vel[1] # 0 /\ player1.vel[1] = 0
        /\ player1.pos # player.pos
        /\ \E i \in EnemyIds : enemy1[i].pos # enemy[i].pos

\* The statements of World.update(), lines 213-226, in program order.
UpdateOrder ==
    <<"camera", "enemy_container.update", "friendly_projectiles.update",
      "ground_items.update", "friendly_projectile_collision",
      "enemy_collision", "player_wall_collisions", "enemy_wall_collisions",
      "follow_player">>

\* C13: the steps that have ended in the running tick are an initial part of
\* the program order, each once, and the step that runs next is the one that
\* follows them; when the projectile pass starts every enemy of the
\* collection has been updated (its rectangle is centred on its position);
\* and when the projectile pass has ended it has tested every enemy of the
\* collection against every projectile it left in the group.
C13_FixedOrder ==
    /\ Len(done) <= Len(UpdateOrder)
    /\ done = SubSeq(UpdateOrder, 1, Len(done))
    /\ error = "none" =>
          pc = IF Len(done) \in {0, Len(UpdateOrder)} THEN "camera"
               ELSE UpdateOrder[Len(done) + 1]
    /\ (error = "none" /\ pc = "friendly_projectile_collision") =>
          \A i \in EnemyIds :
              InContainer(i) => enemy[i].rectc = RectCenter(enemy[i].pos)
    /\ pc = "enemy_collision" =>
          \A i \in SeqToSet(enemy_container) :
              \A p \in SeqToSet(friendly_projectiles) :
                  \E k \in 1..Len(tested) : tested[k].e = i /\ tested[k].p = p

\* C13's case: a World.update() has returned after all its steps, in which
\* the projectile pass registered a hit and the enemy-vs-enemy pass nudged
\* an enemy.
C13_Witness ==
    /\ pc = "camera" /\ error = "none"
    /\ done = UpdateOrder
    /\ \E k \in 1..Len(hitLog) : hitLog[k].tick = tick
    /\ nudgeLog # <<>>

\* The positions of the player and of every enemy: the targets a heading is
\* computed toward.
Positions == {player.pos} \cup {enemy[j].pos : j \in EnemyIds}

\* C14: whenever the pursuit step is about to run, for every enemy as origin
\* and every position of the world as target, get_vectors raises exactly
\* when the two positions are equal, and otherwise returns a heading of
\* magnitude origin.speed to the model's resolution of one pixel per second
\* on each axis (vx^2 + vy^2 <= speed^2 < (|vx| + 1)^2 + (|vy| + 1)^2), no
\* component of which points away from the target and which is zero on an
\* axis of zero displacement.
C14_HeadingMagnitudeAndDirection ==
    pc = "follow_player" =>
        \A i \in EnemyIds : \A t \in Positions :
            LET o == enemy[i]
                g == get_vectors(o.pos, o.speed, t)
                dx == t[1] - o.pos[1]
                dy == t[2] - o.pos[2]
                vx == g.vectors[1]
                vy == g.vectors[2]
            IN  /\ g.raised <=> t = o.pos
                /\ ~g.raised =>
                      /\ vx * vx + vy * vy <= o.speed * o.speed
                      /\ (Abs(vx) + 1) * (Abs(vx) + 1)
                            + (Abs(vy) + 1) * (Abs(vy) + 1) > o.speed * o.speed
                      /\ Sgn(vx) \in {0, Sgn(dx)}
                      /\ Sgn(vy) \in {0, Sgn(dy)}

\* C14's case: the pursuit step has given an enemy of the collection a
\* heading toward a player that lies off both of its axes.
C14_Witness ==
    /\ pc = "camera" /\ error = "none" /\ tick >= 1
    /\ \E i \in EnemyIds :
          /\ InContainer(i)
          /\ player.pos[1] < enemy[i].pos[1] /\ player.pos[2] < enemy[i].pos[2]
          /\ enemy[i].vel = get_vectors(enemy[i].pos, enemy[i].speed,
                                        player.pos).vectors
          /\ enemy[i].vel[1] < 0 /\ enemy[i].vel[2] < 0

\* C15: in every reachable state the collidables and the wall collection
\* hold the walls create_walls made of self.walls, in the same order and
\* with the same rectangles, the render collection holds these walls and no
\* other, and the last step left the two collections as it found them.
C15_WallsImmutable ==
    /\ collidables = create_walls(walls)
    /\ wall_container = create_walls(walls)
    /\ {c \in world_camera : c[1] = "wall"}
          = {<<"wall", k>> : k \in 1..Len(walls)}
    /\ groupsBefore.collidables = collidables
    /\ groupsBefore.wall_container = wall_container

\* C15's case: in a second tick, both wall passes have run against a wall:
\* the player stands stopped at the edge an earlier pass snapped it to, and
\* the enemy-vs-wall pass has just snapped an enemy.
C15_Witness ==
    /\ pc = "follow_player" /\ tick >= 2
    /\ \E k \in 1..Len(collidables) :
          /\ player.vel[1] = 0
          /\ player.pos[1] \in {SnapAfter(Right(collidables[k]), player.size),
                                 SnapBefore(Left(collidables[k]), player.size)}
          /\ \E i \in EnemyIds :
                /\ enemy[i] # enemyBefore[i]
                /\ colliderect(Rect(enemy[i]), collidables[k])

\* The moves of enemy i in the last enemy-vs-enemy pass.
NudgesOf(i) == {n \in 1..Len(nudgeLog) : nudgeLog[n].e = i}

HitsBy(p) == {h \in 1..Len(hitLog) : hitLog[h].p = p}

\* C17: whenever a projectile pass has just ended (the only step that
\* registers hits or removes projectiles), every projectile has registered at
\* most one hit over all the ticks so far, a projectile that registered a hit
\* is out of the projectile group, and the pass has tested no projectile
\* again after a test that removed it, and no projectile that registered a
\* hit in an earlier tick.
C17_ProjectileHitsOnce ==
    pc = "enemy_collision" =>
        /\ \A p \in ProjectileIds :
              /\ Cardinality(HitsBy(p)) <= 1
              /\ HitsBy(p) # {} => p \notin SeqToSet(friendly_projectiles)
        /\ \A k \in 1..Len(tested) :
              /\ \A j \in 1..(k - 1) :
                    tested[j].p = tested[k].p => tested[j].inAfter
              /\ \A h \in HitsBy(tested[k].p) : hitLog[h].tick = tick

\* C17's case: the pass has just ended in which a projectile hit one enemy
\* while its rectangle overlapped that of another enemy of the collection,
\* later in the iteration, against which it was not tested.
C17_Witness ==
    /\ pc = "enemy_collision"
    /\ \E p \in ProjectileIds, i \in EnemyIds :
          /\ \E h \in HitsBy(p) : hitLog[h].tick = tick /\ hitLog[h].e < i
          /\ InContainer(i)
          /\ colliderect(Rect(enemy[i]), Rect(projectile[p]))
          /\ \A k \in 1..Len(tested) : ~(tested[k].e = i /\ tested[k].p = p)

\* The executions of die() for enemy i.
DeathsOf(i) == {d \in 1..Len(dieLog) : dieLog[d].e = i}
\* C18: for every enemy with a non-empty drop table, once the enemy-update
\* step of a tick has returned, and before any later step of that tick, the
\* enemy is out of the enemy collection if the tick before left it with
\* health <= 0; and when the step has just returned, die() has run for the
\* enemy in no other tick than the one after its fatal hit.
C18_RemovedInNextUpdate ==
    \A i \in EnemyIds :
        Len(enemy[i].drop_table) > 0 =>
            /\ (UpdateReturned /\ pc # "camera" /\ atTickEnd[i].health <= 0)
                  => ~InContainer(i) /\ DeathsOf(i) # {}
            /\ pc = "friendly_projectiles.update" =>
                  \A d \in DeathsOf(i) :
                      \E h \in FatalHits :
                          /\ hitLog[h].e = i
                          /\ dieLog[d].tick = hitLog[h].tick + 1

\* C18's case: an enemy with a non-empty drop table that the tick before
\* left in the collection with health <= 0, out of the collection when the
\* enemy-update step of this tick has just returned, with the ticks still
\* running.
C18_Witness ==
    /\ pc = "friendly_projectiles.update" /\ error = "none"
    /\ \E i \in EnemyIds :
          /\ Len(enemy[i].drop_table) > 0
          /\ atTickEnd[i].health <= 0
          /\ i \in SeqToSet(groupsBefore.enemy_container)
          /\ ~InContainer(i)
          /\ \E d \in DeathsOf(i) : dieLog[d].tick = tick

\* Enemy i is in the enemy collection and its tag holds "follower".
Follower(i) == InContainer(i) /\ "follower" \in enemy[i].tag

\* C19: when a World.update() has returned, every follower of the enemy
\* collection that is not at the player's position has the velocity
\* get_vectors gives from its position to the player's; and a World.update()
\* that get_vectors ended had a follower at the player's position.
C19_FollowersHeadForPlayer ==
    /\ (pc = "camera" /\ error = "none" /\ tick >= 1) =>
          \A i \in EnemyIds :
              (Follower(i) /\ enemy[i].pos # player.pos) =>
                  enemy[i].vel = get_vectors(enemy[i].pos, enemy[i].speed,
                                             player.pos).vectors
    /\ error = "ZeroDivisionError" =>
          \E i \in EnemyIds : Follower(i) /\ enemy[i].pos = player.pos

\* C19's case: a second or later World.update() has returned in which the
\* enemy-vs-wall pass left a follower snapped to the wall with its x velocity
\* at zero, and the pursuit step gave it a heading with a non-zero x.
C19_Witness ==
    /\ pc = "camera" /\ error = "none" /\ tick >= 2
    /\ \E i \in EnemyIds, k \in 1..Len(collidables) :
          /\ Follower(i) /\ "flyer" \notin enemy[i].tag
          /\ colliderect(Rect(enemy[i]), collidables[k])
          /\ enemyBefore[i].vel[1] = 0
          /\ enemyBefore[i].pos[1] = SnapBefore(Left(collidables[k]),
                                                enemy[i].size)
          /\ enemy[i].vel[1] # 0

====
